---------------------------- MODULE Spec2Model ----------------------------
(***************************************************************************)
(* A model of the request-dispatch pipeline of go-gateway: the middleware  *)
(* chain (pkg/middleware), the route table (pkg/route), the three load     *)
(* balancers (pkg/loadbalancer) and the dispatcher (main.go).              *)
(*                                                                         *)
(* Go strings are sequences of one-character strings, so that prefix,      *)
(* suffix and wildcard tests are computed and not assumed.  Slice indices  *)
(* are the code's 0-based indices; element i of a slice s is s[i + 1].     *)
(***************************************************************************)
EXTENDS Integers, Sequences, FiniteSets, TLC

VARIABLES
    \* ---- middleware.MiddlewareChain and the calls it makes
    mc_handlers,   \* handlers: per handler what PreHandle / PostHandle return
    mc_index,      \* MiddlewareChain.index
    mc_calls,      \* calls made by the last operation, in order
    mc_op,         \* the last operation on the chain
    mc_index0      \* MiddlewareChain.index when the last operation started

chainVars == <<mc_handlers, mc_index, mc_calls, mc_op, mc_index0>>

VARIABLES
    \* ---- route.Router and the last Match call on it
    rt_routes,     \* Router.routes
    rt_op,         \* the last operation on the router
    rt_path,       \* argument of the last Match call
    rt_result      \* what that call returned: a route, nil or a panic

routerVars == <<rt_routes, rt_op, rt_path, rt_result>>

VARIABLES
    \* ---- one load balancer and the calls made on it
    lb,            \* the balancer: kind, servers, currentIndex, totalWeight
    lb_op,         \* the last operation on the balancer
    lb_list,       \* the list passed to the last ChooseServer call
    lb_result,     \* what that call returned: a server or nil
    lb_run         \* results of the latest consecutive ChooseServer calls
                   \* that were passed lb_list (the last MaxRun of them)

lbVars == <<lb, lb_op, lb_list, lb_result, lb_run>>

VARIABLES
    \* ---- threads calling the balancer concurrently, and its sync.RWMutex
    mutex,         \* the balancer's mutex: the writer (0: none) and the readers
    th,            \* per thread: where it is, the call it is in, what it read
    cursors        \* the cursor that each ChooseServer call of the run of
                   \* lb_run worked from, in the order of the returns

lockVars == <<mutex, th, cursors>>

VARIABLES
    \* ---- main.Gateway, one reloadRoutes activation and one request
    g_router,      \* g.router.routes, the published route table
    g_config,      \* g.configManager's routes
    g_middlewares, \* g.middlewares
    rl,            \* reloadRoutes: where it is, the routes it loads
    req            \* ServeHTTP: where it is, what it matched, called and did

gatewayVars == <<g_router, g_config, g_middlewares, rl, req>>

VARIABLE
    \* ---- one call of pathMatch
    pm             \* its arguments and, once it returned, its result

VARIABLE
    \* ---- a caller of GetServers
    got            \* the slice it was returned, and whether the slice shares
                   \* its array with the balancer's servers

VARIABLE
    \* ---- a caller of the StaticConfigManager
    cm             \* its last call, the route list before it and the error
                   \* it returned

VARIABLE
    \* ---- concurrent ServeHTTP invocations, each between its context
    \* ---- literal and the return of chain.Execute
    cr             \* the chains and attribute maps they created and, for
                   \* each, the locals of Execute and the calls made so far

vars == <<chainVars, routerVars, lbVars, lockVars, gatewayVars, pm, got, cm, cr>>

(***************************************************************************)
(* Bounds                                                                  *)
(***************************************************************************)
MaxHandlers == 3
MaxRoutes == 3
MaxOrder == 2
MaxServers == 2
MaxWeight == 2
MaxCursor == 6
MaxRun == 6
NumThreads == 2
MaxForwards == 2
MaxPatternLen == 5
MaxPathLen == 4
MaxTime == 2
NumRequests == 2
MaxWaitCursor == 3

(***************************************************************************)
(* strings                                                                 *)
(***************************************************************************)
HasPrefix(s, prefix) ==
    /\ Len(prefix) <= Len(s)
    /\ SubSeq(s, 1, Len(prefix)) = prefix

HasSuffix(s, suffix) ==
    /\ Len(suffix) <= Len(s)
    /\ SubSeq(s, Len(s) - Len(suffix) + 1, Len(s)) = suffix

TrimSuffix(s, suffix) ==
    IF HasSuffix(s, suffix) THEN SubSeq(s, 1, Len(s) - Len(suffix)) ELSE s

Contains(s, c) == \E i \in 1..Len(s) : s[i] = c

SeqsUpTo(S, n) == UNION {[1..k -> S] : k \in 0..n}

(***************************************************************************)
(* Middleware chain                                                        *)
(***************************************************************************)
\* A handler is known by what its methods return: pre is the result of
\* PreHandle, postErr says that PostHandle returns an error.
Handlers == [pre : BOOLEAN, postErr : BOOLEAN]

HandlerLists == SeqsUpTo(Handlers, MaxHandlers)

Pre(i) == <<"PreHandle", i>>
Post(i) == <<"PostHandle", i>>
HErr(i) == <<"HandleError", i>>

\* The forward loop of Execute, from index i: the index it ends with.
RECURSIVE ForwardEnd(_, _)
ForwardEnd(handlers, i) ==
    IF i < Len(handlers)
    THEN IF ~handlers[i + 1].pre
         THEN i + 1
         ELSE ForwardEnd(handlers, i + 1)
    ELSE i

\* The PreHandle calls of the forward loop that starts at i and ends at e.
ForwardCalls(i, e) == [k \in 1..(e - i) |-> Pre(i + k - 1)]

\* First index of the backward loop of Execute.
StartIndex(index) == IF index - 1 < 0 THEN 0 ELSE index - 1

\* The backward loop of Execute without its error branch.
BackwardCalls_NoHandleError(handlers, i, startIndex) ==
    [k \in 1..(i - startIndex + 1) |-> Post(i - k + 1)]

\* The backward loop of Execute: i runs from i down to startIndex.
RECURSIVE BackwardCalls(_, _, _)
BackwardCalls(handlers, i, startIndex) ==
    IF i >= startIndex
    THEN <<Post(i)>>
         \o (IF handlers[i + 1].postErr THEN <<HErr(i)>> ELSE <<>>)
         \o BackwardCalls(handlers, i - 1, startIndex)
    ELSE <<>>

ExecuteCalls(handlers, index) ==
    LET e == ForwardEnd(handlers, index)
    IN  ForwardCalls(index, e)
        \o BackwardCalls(handlers, Len(handlers) - 1, StartIndex(e))

NewMiddlewareChain(handlers) ==
    /\ mc_handlers' = handlers
    /\ mc_index' = 0
    /\ mc_calls' = <<>>
    /\ mc_op' = "new"
    /\ mc_index0' = 0
    /\ UNCHANGED <<routerVars, lbVars, lockVars, gatewayVars, pm, got, cm, cr>>

Execute ==
    /\ mc_index' = ForwardEnd(mc_handlers, mc_index)
    /\ mc_calls' = ExecuteCalls(mc_handlers, mc_index)
    /\ mc_op' = "Execute"
    /\ mc_index0' = mc_index
    /\ UNCHANGED <<mc_handlers, routerVars, lbVars, lockVars, gatewayVars, pm, got, cm, cr>>

\* ExecuteNext with the chain's index at index: the calls it makes, the
\* index it leaves and the value it returns.
RECURSIVE ExecuteNextRun(_, _)
ExecuteNextRun(handlers, index) ==
    IF index >= Len(handlers)
    THEN [calls |-> <<>>, index |-> index, result |-> FALSE]
    ELSE LET handler == handlers[index + 1]
             next == ExecuteNextRun(handlers, index + 1)
         IN  IF handler.pre
             THEN [calls |-> <<Pre(index)>> \o next.calls \o <<Post(index)>>
                             \o (IF handler.postErr THEN <<HErr(index)>> ELSE <<>>),
                   index |-> next.index - 1,
                   result |-> TRUE]
             ELSE [calls |-> <<Pre(index)>>,
                   index |-> (index + 1) - 1,
                   result |-> FALSE]

ExecuteNext ==
    /\ LET run == ExecuteNextRun(mc_handlers, mc_index)
       IN  /\ mc_index' = run.index
           /\ mc_calls' = run.calls
    /\ mc_op' = "ExecuteNext"
    /\ mc_index0' = mc_index
    /\ UNCHANGED <<mc_handlers, routerVars, lbVars, lockVars, gatewayVars, pm, got, cm, cr>>

ChainInit ==
    /\ mc_handlers \in HandlerLists
    /\ mc_index = 0
    /\ mc_calls = <<>>
    /\ mc_op = "new"
    /\ mc_index0 = 0

\* A chain that is never used: the state of the chain variables in the
\* specifications of the other components.
ChainIdle ==
    /\ mc_handlers = <<>>
    /\ mc_index = 0
    /\ mc_calls = <<>>
    /\ mc_op = "new"
    /\ mc_index0 = 0

ChainNext ==
    \/ \E h \in HandlerLists : NewMiddlewareChain(h)
    \/ Execute
    \/ ExecuteNext

(***************************************************************************)
(* Route table                                                             *)
(***************************************************************************)
\* What a call returns: a route, nil, or a run-time panic instead of a value.
Found(route) == [kind |-> "route", route |-> route]
Nil == [kind |-> "nil"]
Panic == [kind |-> "panic"]

\* Paths and patterns, as character sequences.
S_a == <<"/", "a">>                        \* "/a"
S_ab == <<"/", "a", "b">>                  \* "/ab"
S_a_b == <<"/", "a", "/", "b">>            \* "/a/b"
S_b == <<"/", "b">>                        \* "/b"
S_c == <<"/", "c">>                        \* "/c"
S_a_deep == <<"/", "a", "/", "*", "*">>    \* "/a/**"
S_b_glob == <<"/", "b", "*">>              \* "/b*"
S_deep == <<"/", "*", "*">>                \* "/**"

\* The dynamic type and content of Predicate.Args (an interface{}): a
\* map[string]string as Go code builds it, the map[string]interface{} that
\* encoding/json produces for a JSON object, or nil.  pattern is the value
\* under the key "pattern", and ok says whether the key is present.
StrMap(pattern) == [type |-> "map[string]string", ok |-> TRUE, pattern |-> pattern]
StrMapNoPattern == [type |-> "map[string]string", ok |-> FALSE, pattern |-> <<>>]
AnyMap(pattern) == [type |-> "map[string]interface{}", ok |-> TRUE, pattern |-> pattern]
NilArgs == [type |-> "nil", ok |-> FALSE, pattern |-> <<>>]

Predicate(name, args) == [Name |-> name, Args |-> args]

\* regexp.MatchString("^" + regexPattern + "$", path) for the regexPattern
\* that pathMatch builds: every character of the pattern is quoted and
\* matches itself, every "*" became ".*" (any characters but a newline).
RECURSIVE RegexpMatch(_, _)
RegexpMatch(pattern, path) ==
    IF pattern = <<>>
    THEN path = <<>>
    ELSE IF Head(pattern) = "*"
         THEN \/ RegexpMatch(Tail(pattern), path)
              \/ /\ path # <<>>
                 /\ Head(path) # "\n"
                 /\ RegexpMatch(pattern, Tail(path))
         ELSE /\ path # <<>>
              /\ Head(path) = Head(pattern)
              /\ RegexpMatch(Tail(pattern), Tail(path))

\* pathMatch taking /** as "/" and anything behind it.
pathMatch_SlashRequired(pattern, path) ==
    IF HasSuffix(pattern, <<"/", "*", "*">>)
    THEN HasPrefix(path, TrimSuffix(pattern, <<"*", "*">>))
    ELSE IF Contains(pattern, "*")
         THEN RegexpMatch(pattern, path)
         ELSE pattern = path

\* pathMatch taking a pattern without "*" as a prefix.
pathMatch_PrefixWhenPlain(pattern, path) ==
    IF HasSuffix(pattern, <<"/", "*", "*">>)
    THEN HasPrefix(path, TrimSuffix(pattern, <<"/", "*", "*">>))
    ELSE IF Contains(pattern, "*")
         THEN RegexpMatch(pattern, path)
         ELSE HasPrefix(path, pattern)

pathMatch(pattern, path) ==
    IF HasSuffix(pattern, <<"/", "*", "*">>)
    THEN HasPrefix(path, TrimSuffix(pattern, <<"/", "*", "*">>))
    ELSE IF Contains(pattern, "*")
         THEN RegexpMatch(pattern, path)
         ELSE pattern = path

\* The patterns and paths pathMatch is called with.
PatternInputs == SeqsUpTo({"/", "a", "*"}, MaxPatternLen)
PathInputs == SeqsUpTo({"/", "a", "b"}, MaxPathLen)

CallPathMatch ==
    /\ pm.op = "args"
    /\ pm' = [pm EXCEPT !.op = "pathMatch",
                        !.result = pathMatch(pm.pattern, pm.path)]
    /\ UNCHANGED <<chainVars, routerVars, lbVars, lockVars, gatewayVars, got, cm, cr>>

PathMatchInit ==
    \E pattern \in PatternInputs, path \in PathInputs :
        pm = [op |-> "args", pattern |-> pattern, path |-> path, result |-> FALSE]

PathMatchIdle ==
    pm = [op |-> "none", pattern |-> <<>>, path |-> <<>>, result |-> FALSE]

PathMatchNext == CallPathMatch

\* matchRoute over the predicates from position i on: "match", "nomatch", or
\* "panic" when the type assertion predicate.Args.(map[string]string) fails.
RECURSIVE matchPredicates(_, _, _)
matchPredicates(predicates, i, path) ==
    IF i > Len(predicates)
    THEN "nomatch"
    ELSE LET predicate == predicates[i]
         IN  IF predicate.Name = "Path"
             THEN IF predicate.Args.type # "map[string]string"
                  THEN "panic"
                  ELSE IF ~predicate.Args.ok
                       THEN matchPredicates(predicates, i + 1, path)
                       ELSE IF pathMatch(predicate.Args.pattern, path)
                            THEN "match"
                            ELSE matchPredicates(predicates, i + 1, path)
             ELSE matchPredicates(predicates, i + 1, path)

matchRoute(route, path) == matchPredicates(route.Predicates, 1, path)

\* Router.Match over the routes from position i on.
RECURSIVE MatchRoutes(_, _, _)
MatchRoutes(routes, i, path) ==
    IF i > Len(routes)
    THEN Nil
    ELSE LET m == matchRoute(routes[i], path)
         IN  IF m = "panic" THEN Panic
             ELSE IF m = "match" THEN Found(routes[i])
             ELSE MatchRoutes(routes, i + 1, path)

RouterMatch(routes, path) == MatchRoutes(routes, 1, path)

SortedByOrder(routes) ==
    \A i \in 1..(Len(routes) - 1) : routes[i].Order <= routes[i + 1].Order

IndexPermutations(n) ==
    {f \in [1..n -> 1..n] : \A i, j \in 1..n : i # j => f[i] # f[j]}

\* sort.Slice(routes, less by Order): the slice ends sorted by Order; the
\* sort is not stable, so routes of equal Order may end in any order.
SortSlice(routes) ==
    {r \in {[i \in 1..Len(routes) |-> routes[f[i]]] : f \in IndexPermutations(Len(routes))} :
        SortedByOrder(r)}

\* Router.AddRoute without its sort.
AddRouteResults_Unsorted(routes, route) == {Append(routes, route)}

\* The tables Router.AddRoute can leave: append, then sort.Slice.
AddRouteResults(routes, route) == SortSlice(Append(routes, route))

\* The routes the operations are called with.
RouteIDs == {"r1", "r2"}
Orders == 0..MaxOrder
PredicateLists ==
    { <<Predicate("Path", StrMap(S_a_deep))>>,
      <<Predicate("Path", StrMap(S_a_b)), Predicate("Path", StrMap(S_b_glob))>>,
      <<Predicate("Header", AnyMap(S_a_deep)), Predicate("Path", StrMapNoPattern)>>,
      <<Predicate("Path", AnyMap(S_a_deep))>> }
U_http == <<"h", ":", "/", "/", "x">>      \* "h://x"
RouteInputs ==
    [ID : RouteIDs, URI : {U_http}, Order : Orders, Predicates : PredicateLists]
Paths == {S_a_b, S_ab, S_b, S_c}

AddRoute(route) ==
    /\ Len(rt_routes) < MaxRoutes
    /\ rt_routes' \in AddRouteResults(rt_routes, route)
    /\ rt_op' = "AddRoute"
    /\ rt_path' = <<>>
    /\ rt_result' = Nil
    /\ UNCHANGED <<chainVars, lbVars, lockVars, gatewayVars, pm, got, cm, cr>>

Match(path) ==
    /\ rt_op' = "Match"
    /\ rt_path' = path
    /\ rt_result' = RouterMatch(rt_routes, path)
    /\ UNCHANGED <<rt_routes, chainVars, lbVars, lockVars, gatewayVars, pm, got, cm, cr>>

\* NewRouter
RouterInit ==
    /\ rt_routes = <<>>
    /\ rt_op = "new"
    /\ rt_path = <<>>
    /\ rt_result = Nil

RouterIdle == RouterInit

RouterNext ==
    \/ \E route \in RouteInputs : AddRoute(route)
    \/ \E path \in Paths : Match(path)

(***************************************************************************)
(* Load balancers                                                          *)
(***************************************************************************)
U_1 == <<"h", ":", "/", "/", "1">>         \* "h://1"
U_2 == <<"h", ":", "/", "/", "2">>         \* "h://2"
U_3 == <<"h", ":", "/", "/", "3">>         \* "h://3"
ServerURLs == {U_1, U_2, U_3}
Weights == 0..MaxWeight
Servers == [URL : ServerURLs, Weight : Weights]
ServerLists == SeqsUpTo(Servers, MaxServers)

Kinds == {"RoundRobin", "Random", "WeightedRoundRobin"}

\* NewRoundRobinBalancer, NewRandomBalancer, NewWeightedRoundRobinBalancer.
\* A balancer kind without a field keeps it at 0.
NewBalancer(kind) ==
    [kind |-> kind, servers |-> <<>>, currentIndex |-> 0, totalWeight |-> 0]

ChoseServer(server) == [kind |-> "server", server |-> server]

\* Index (1-based) of the first server of the list with the URL, 0 if none.
RECURSIVE IndexOfURL(_, _, _)
IndexOfURL(servers, url, i) ==
    IF i > Len(servers) THEN 0
    ELSE IF servers[i].URL = url THEN i
    ELSE IndexOfURL(servers, url, i + 1)

RemoveAt(servers, i) ==
    SubSeq(servers, 1, i - 1) \o SubSeq(servers, i + 1, Len(servers))

AddServerTo(b, server) ==
    [b EXCEPT !.servers = Append(@, server),
              !.totalWeight = IF b.kind = "WeightedRoundRobin"
                              THEN @ + server.Weight ELSE @]

RemoveServerFrom(b, url) ==
    LET i == IndexOfURL(b.servers, url, 1)
        rest == RemoveAt(b.servers, i)
    IN  IF i = 0 THEN b
        ELSE [b EXCEPT
                !.servers = rest,
                !.totalWeight = IF b.kind = "WeightedRoundRobin"
                                THEN @ - b.servers[i].Weight ELSE @,
                !.currentIndex = IF /\ b.kind # "Random"
                                    /\ @ >= Len(rest)
                                    /\ Len(rest) > 0
                                 THEN Len(rest) - 1 ELSE @]

\* UpdateServer leaving the stored total weight as it is.
UpdateServerIn_KeepTotal(b, server) ==
    LET i == IndexOfURL(b.servers, server.URL, 1)
    IN  IF i = 0 THEN b
        ELSE [b EXCEPT !.servers = [@ EXCEPT ![i] = server]]

UpdateServerIn(b, server) ==
    LET i == IndexOfURL(b.servers, server.URL, 1)
    IN  IF i = 0 THEN b
        ELSE [b EXCEPT
                !.servers = [@ EXCEPT ![i] = server],
                !.totalWeight = IF b.kind = "WeightedRoundRobin"
                                THEN @ - b.servers[i].Weight + server.Weight
                                ELSE @]

\* GetServers returns a copy of the server list.
GetServersOf(b) == b.servers

\* GetServers returning the balancer's own slice.
GetServersResult_NoCopy(b) == [list |-> b.servers, shared |-> TRUE]

\* The slice GetServers returns: make and copy give it an array of its own.
GetServersResult(b) == [list |-> GetServersOf(b), shared |-> FALSE]

NoSlice == [list |-> <<>>, shared |-> FALSE]

\* What a slice g becomes when the balancer b runs op: nothing happens to a
\* slice with an array of its own; one that shares the array of b.servers
\* sees UpdateServer's assignment and RemoveServer's shift of the elements
\* behind the removed one, and AddServer's append either writes the next
\* element of the array or moves b.servers to a new array.
SharedAfter(g, b, op, arg) ==
    IF ~g.shared THEN {g}
    ELSE IF op = "UpdateServer"
    THEN LET i == IndexOfURL(b.servers, arg.URL, 1)
         IN  {[g EXCEPT !.list = [k \in 1..Len(g.list) |->
                                   IF k = i THEN arg ELSE g.list[k]]]}
    ELSE IF op = "RemoveServer"
    THEN LET i == IndexOfURL(b.servers, arg, 1)
         IN  {[g EXCEPT !.list = [k \in 1..Len(g.list) |->
                                   IF i # 0 /\ k >= i /\ k < Len(b.servers)
                                   THEN b.servers[k + 1] ELSE g.list[k]]]}
    ELSE IF op = "AddServer"
    THEN {[g EXCEPT !.shared = FALSE],
          [g EXCEPT !.list = [k \in 1..Len(g.list) |->
                                IF k = Len(b.servers) + 1 THEN arg ELSE g.list[k]]]}
    ELSE {g}

\* uniqueServers: the first server of every URL, in list order.
\* ChooseServer without the deduplication.
UniqueServers_KeepAll(servers) == servers

RECURSIVE UniqueServers(_)
UniqueServers(servers) ==
    IF servers = <<>> THEN <<>>
    ELSE LET front == SubSeq(servers, 1, Len(servers) - 1)
             last == servers[Len(servers)]
         IN  IF IndexOfURL(front, last.URL, 1) # 0
             THEN UniqueServers(front)
             ELSE Append(UniqueServers(front), last)

RECURSIVE SumWeights(_)
SumWeights(servers) ==
    IF servers = <<>> THEN 0
    ELSE servers[1].Weight + SumWeights(Tail(servers))

\* The selection loop of WeightedRoundRobinBalancer.ChooseServer from
\* position i on, with the weight accumulated so far: the position chosen,
\* or 0 when the loop ends without choosing.
RECURSIVE WeightedIndex(_, _, _, _)
WeightedIndex(uniqueServers, i, currentWeight, target) ==
    IF i > Len(uniqueServers) THEN 0
    ELSE IF target < currentWeight + uniqueServers[i].Weight THEN i
    ELSE WeightedIndex(uniqueServers, i + 1,
                       currentWeight + uniqueServers[i].Weight, target)

\* A ChooseServer that forgets to advance the cursor.
RoundRobinChoose_NoAdvance(b, servers) ==
    LET uniqueServers == UniqueServers(servers)
    IN  IF Len(servers) = 0
        THEN [b |-> b, result |-> Nil]
        ELSE [b |-> b,
              result |-> ChoseServer(
                  uniqueServers[(b.currentIndex % Len(uniqueServers)) + 1])]

\* RoundRobinBalancer.ChooseServer: the balancer after the call and the result.
RoundRobinChoose(b, servers) ==
    LET uniqueServers == UniqueServers(servers)
    IN  IF Len(servers) = 0
        THEN [b |-> b, result |-> Nil]
        ELSE [b |-> [b EXCEPT !.currentIndex = @ + 1],
              result |-> ChoseServer(
                  uniqueServers[(b.currentIndex % Len(uniqueServers)) + 1])]

\* A random ChooseServer that draws from the balancer's own servers.
RandomChoose_OwnServers(b, servers) ==
    IF Len(servers) = 0
    THEN {[b |-> b, result |-> Nil]}
    ELSE {[b |-> b, result |-> ChoseServer(b.servers[index])] :
             index \in 1..Len(b.servers)}
         \cup {[b |-> b, result |-> ChoseServer(servers[1])]}

\* RandomBalancer.ChooseServer: rand.Intn may return any index.
RandomChoose(b, servers) ==
    LET uniqueServers == UniqueServers(servers)
    IN  IF Len(servers) = 0
        THEN {[b |-> b, result |-> Nil]}
        ELSE {[b |-> b, result |-> ChoseServer(uniqueServers[index + 1])] :
                 index \in 0..(Len(uniqueServers) - 1)}

\* A weighted ChooseServer that ignores the weights.
WeightedChoose_Unweighted(b, servers) == RoundRobinChoose(b, servers)

\* A weighted ChooseServer that works from the stored total weight.
WeightedChoose_StoredTotal(b, servers) ==
    LET uniqueServers == UniqueServers(servers)
        totalWeight == b.totalWeight
        i == WeightedIndex(uniqueServers, 1, 0, b.currentIndex % totalWeight)
    IN  IF Len(servers) = 0
        THEN [b |-> b, result |-> Nil]
        ELSE IF totalWeight = 0
        THEN [b |-> [b EXCEPT !.currentIndex = @ + 1],
              result |-> ChoseServer(
                  uniqueServers[(b.currentIndex % Len(uniqueServers)) + 1])]
        ELSE [b |-> [b EXCEPT !.currentIndex = (@ + 1) % totalWeight],
              result |-> ChoseServer(
                  uniqueServers[IF i = 0 THEN 1 ELSE i])]

\* A weighted ChooseServer that returns the first server when all weights
\* are 0.
WeightedChoose_ZeroTakesFirst(b, servers) ==
    LET uniqueServers == UniqueServers(servers)
        totalWeight == SumWeights(uniqueServers)
        i == WeightedIndex(uniqueServers, 1, 0, b.currentIndex % totalWeight)
    IN  IF Len(servers) = 0
        THEN [b |-> b, result |-> Nil]
        ELSE IF totalWeight = 0
        THEN [b |-> [b EXCEPT !.currentIndex = @ + 1],
              result |-> ChoseServer(uniqueServers[1])]
        ELSE [b |-> [b EXCEPT !.currentIndex = (@ + 1) % totalWeight],
              result |-> ChoseServer(
                  uniqueServers[IF i = 0 THEN 1 ELSE i])]

\* WeightedRoundRobinBalancer.ChooseServer.
WeightedChoose(b, servers) ==
    LET uniqueServers == UniqueServers(servers)
        totalWeight == SumWeights(uniqueServers)
        i == WeightedIndex(uniqueServers, 1, 0, b.currentIndex % totalWeight)
    IN  IF Len(servers) = 0
        THEN [b |-> b, result |-> Nil]
        ELSE IF totalWeight = 0
        THEN [b |-> [b EXCEPT !.currentIndex = @ + 1],
              result |-> ChoseServer(
                  uniqueServers[(b.currentIndex % Len(uniqueServers)) + 1])]
        ELSE [b |-> [b EXCEPT !.currentIndex = (@ + 1) % totalWeight],
              result |-> ChoseServer(
                  uniqueServers[IF i = 0 THEN 1 ELSE i])]

\* ChooseServer falling back to the balancer's own servers on an empty list.
ChooseOutcomes_EmptyFallsBack(b, servers) ==
    IF Len(servers) = 0 /\ Len(b.servers) > 0
    THEN {[b |-> b, result |-> ChoseServer(b.servers[1])]}
    ELSE IF b.kind = "RoundRobin" THEN {RoundRobinChoose(b, servers)}
    ELSE IF b.kind = "Random" THEN RandomChoose(b, servers)
    ELSE {WeightedChoose(b, servers)}

\* The outcomes of ChooseServer(servers) on balancer b.
ChooseOutcomes(b, servers) ==
    IF b.kind = "RoundRobin" THEN {RoundRobinChoose(b, servers)}
    ELSE IF b.kind = "Random" THEN RandomChoose(b, servers)
    ELSE {WeightedChoose(b, servers)}

\* A mutation ends the run of consecutive ChooseServer calls.
Mutated(b, op) ==
    /\ lb' = b
    /\ lb_op' = op
    /\ lb_list' = <<>>
    /\ lb_result' = Nil
    /\ lb_run' = <<>>
    /\ UNCHANGED <<chainVars, routerVars, lockVars, gatewayVars, pm, cm, cr>>

AddServer(server) ==
    /\ Len(lb.servers) < MaxServers
    /\ Mutated(AddServerTo(lb, server), "AddServer")
    /\ got' \in SharedAfter(got, lb, "AddServer", server)

RemoveServer(url) ==
    /\ url \in ServerURLs
    /\ Mutated(RemoveServerFrom(lb, url), "RemoveServer")
    /\ got' \in SharedAfter(got, lb, "RemoveServer", url)

UpdateServer(server) ==
    /\ server \in Servers
    /\ Mutated(UpdateServerIn(lb, server), "UpdateServer")
    /\ got' \in SharedAfter(got, lb, "UpdateServer", server)

\* GetServers, and the caller keeps the slice.
GetServers ==
    /\ got' = GetServersResult(lb)
    /\ UNCHANGED <<lbVars, chainVars, routerVars, lockVars, gatewayVars, pm, cm, cr>>

\* The caller assigns to element i of the slice it holds.
ModifyReturned(i, server) ==
    /\ i \in 1..Len(got.list)
    /\ got' = [got EXCEPT !.list[i] = server]
    /\ lb' = IF got.shared /\ i <= Len(lb.servers)
             THEN [lb EXCEPT !.servers[i] = server]
             ELSE lb
    /\ UNCHANGED <<lb_op, lb_list, lb_result, lb_run>>
    /\ UNCHANGED <<chainVars, routerVars, lockVars, gatewayVars, pm, cm, cr>>

LastOf(run, n) ==
    IF Len(run) <= n THEN run ELSE SubSeq(run, Len(run) - n + 1, Len(run))

\* The balancer after ChooseServer(servers) with outcome o.
Chose(servers, o) ==
    /\ lb' = o.b
    /\ lb_result' = o.result
    /\ lb_run' = IF lb_op = "ChooseServer" /\ lb_list = servers
                 THEN LastOf(Append(lb_run, o.result), MaxRun)
                 ELSE <<o.result>>
    /\ lb_op' = "ChooseServer"
    /\ lb_list' = servers

ChooseServer(servers) ==
    /\ lb.currentIndex < MaxCursor
    /\ \E o \in ChooseOutcomes(lb, servers) : Chose(servers, o)
    /\ UNCHANGED <<chainVars, routerVars, lockVars, gatewayVars, pm, got, cm, cr>>

\* The lists ChooseServer is called with besides GetServers(): empty, with a
\* duplicated URL, all weights 0, and the weights 2:1 and 1:0:2.
Srv(url, weight) == [URL |-> url, Weight |-> weight]
InputLists ==
    { <<>>,
      <<Srv(U_1, 1), Srv(U_2, 1), Srv(U_1, 2)>>,
      <<Srv(U_1, 0), Srv(U_2, 0)>>,
      <<Srv(U_1, 2), Srv(U_2, 1)>>,
      <<Srv(U_3, 1), Srv(U_1, 0), Srv(U_2, 2)>> }

LBInit(kind) ==
    /\ lb = NewBalancer(kind)
    /\ lb_op = "new"
    /\ lb_list = <<>>
    /\ lb_result = Nil
    /\ lb_run = <<>>
    /\ got = NoSlice

LBIdle == LBInit("RoundRobin")

LBNext ==
    \/ \E server \in Servers : AddServer(server)
    \/ \E url \in ServerURLs : RemoveServer(url)
    \/ \E server \in Servers : UpdateServer(server)
    \/ ChooseServer(GetServersOf(lb))
    \/ \E servers \in InputLists : ChooseServer(servers)

\* The balancer's mutations, GetServers and a caller that writes to the
\* slice it was returned.
CopyServers == {Srv(U_1, 1), Srv(U_2, 2), Srv(U_1, 2)}

CopyNext ==
    \/ \E server \in CopyServers : AddServer(server)
    \/ \E server \in CopyServers : RemoveServer(server.URL)
    \/ \E server \in CopyServers : UpdateServer(server)
    \/ GetServers
    \/ \E i \in 1..MaxServers : \E server \in CopyServers : ModifyReturned(i, server)

(***************************************************************************)
(* Concurrent calls on one balancer                                        *)
(***************************************************************************)
Threads == 1..NumThreads

Call(op, arg) == [op |-> op, arg |-> arg]
NoCall == Call("none", <<>>)
NoBalancer == NewBalancer("RoundRobin")

\* The calls the threads make.
ThreadServers == {Srv(U_1, 1), Srv(U_2, 2)}
ThreadLists == {<<>>, <<Srv(U_1, 1), Srv(U_2, 2)>>}
ThreadCalls ==
    {Call("AddServer", server) : server \in ThreadServers}
    \cup {Call("RemoveServer", url) : url \in {U_1, U_2}}
    \cup {Call("UpdateServer", server) : server \in {Srv(U_1, 2)}}
    \cup {Call("GetServers", <<>>)}
    \cup {Call("ChooseServer", servers) : servers \in ThreadLists}

\* Every method under the read lock.
LockMode_AllShared(kind, op) == "R"

\* The lock a method takes on entry: mutex.Lock ("W") or mutex.RLock ("R").
LockMode(kind, op) ==
    IF op = "GetServers" THEN "R"
    ELSE IF op = "ChooseServer" /\ kind = "Random" THEN "R"
    ELSE "W"

\* The parts of the balancer a call writes while it holds the lock.
Writes(kind, call) ==
    IF call.op = "AddServer" \/ call.op = "UpdateServer"
    THEN {"servers"}
         \cup (IF kind = "WeightedRoundRobin" THEN {"totalWeight"} ELSE {})
    ELSE IF call.op = "RemoveServer"
    THEN {"servers"}
         \cup (IF kind = "WeightedRoundRobin" THEN {"totalWeight"} ELSE {})
         \cup (IF kind # "Random" THEN {"currentIndex"} ELSE {})
    ELSE IF call.op = "ChooseServer" /\ Len(call.arg) > 0
    THEN (IF kind = "Random" THEN {"rand"} ELSE {"currentIndex"})
    ELSE {}

\* The parts of the balancer a call reads while it holds the lock.
Reads(kind, call) ==
    IF call.op = "GetServers" THEN {"servers"} ELSE Writes(kind, call)

CanLock(mode) ==
    IF mode = "W"
    THEN mutex.writer = 0 /\ mutex.readers = {}
    ELSE mutex.writer = 0

\* The bounds of the model on the state of the balancer.
WithinBounds(call) ==
    /\ call.op = "AddServer" => Len(lb.servers) < MaxServers
    /\ call.op = "ChooseServer" => lb.currentIndex < MaxCursor

\* The balancers a call can leave.
CallOutcomes(b, call) ==
    IF call.op = "AddServer" THEN {AddServerTo(b, call.arg)}
    ELSE IF call.op = "RemoveServer" THEN {RemoveServerFrom(b, call.arg)}
    ELSE IF call.op = "UpdateServer" THEN {UpdateServerIn(b, call.arg)}
    ELSE IF call.op = "ChooseServer"
    THEN {o.b : o \in ChooseOutcomes(b, call.arg)}
    ELSE {b}

\* Thread t enters a method: mutex.Lock() or mutex.RLock().
Lock(t, call) ==
    /\ th[t].pc = "idle"
    /\ WithinBounds(call)
    /\ CanLock(LockMode(lb.kind, call.op))
    /\ mutex' = IF LockMode(lb.kind, call.op) = "W"
                THEN [mutex EXCEPT !.writer = t]
                ELSE [mutex EXCEPT !.readers = @ \cup {t}]
    /\ th' = [th EXCEPT ![t] = [pc |-> "locked", call |-> call, seen |-> NoBalancer]]
    /\ UNCHANGED <<cursors, chainVars, routerVars, lbVars, gatewayVars, pm, got, cm, cr>>

\* Thread t reads the fields of the balancer that the body of its method
\* works from.
Read(t) ==
    /\ th[t].pc = "locked"
    /\ th' = [th EXCEPT ![t].pc = "read", ![t].seen = lb]
    /\ UNCHANGED <<mutex, cursors, chainVars, routerVars, lbVars, gatewayVars, pm, got, cm, cr>>

\* The balancer after a call wrote the fields it writes, with the values in
\* after, and left the others as they are in b.
Merged(b, after, writes) ==
    [kind |-> b.kind,
     servers |-> IF "servers" \in writes THEN after.servers ELSE b.servers,
     currentIndex |-> IF "currentIndex" \in writes
                      THEN after.currentIndex ELSE b.currentIndex,
     totalWeight |-> IF "totalWeight" \in writes
                     THEN after.totalWeight ELSE b.totalWeight]

\* The readers that the Unlock of thread t lets in: those that found a
\* writer at their RLock, when t is that writer.
ReleasedBy(t) ==
    IF mutex.writer = t THEN {u \in Threads : th[u].pc = "blocked"} ELSE {}

\* Unlock keeping the lock on the early return of ChooseServer for an empty
\* list.
Unlock_NotOnEarlyReturn(t) ==
    /\ th[t].pc = "read"
    /\ LET call == th[t].call
           writes == Writes(lb.kind, call)
       IN  IF call.op = "ChooseServer"
           THEN \E o \in ChooseOutcomes(th[t].seen, call.arg) :
                   /\ Chose(call.arg, [b |-> Merged(lb, o.b, writes),
                                       result |-> o.result])
                   /\ cursors' = IF lb_op = "ChooseServer" /\ lb_list = call.arg
                                 THEN LastOf(Append(cursors, th[t].seen.currentIndex),
                                             MaxRun)
                                 ELSE <<th[t].seen.currentIndex>>
                   /\ got' = got
           ELSE IF call.op = "GetServers"
           THEN UNCHANGED <<lbVars, cursors, got>>
           ELSE /\ \E after \in CallOutcomes(th[t].seen, call) :
                      lb' = Merged(lb, after, writes)
                /\ got' \in SharedAfter(got, lb, call.op, call.arg)
                /\ lb_op' = call.op
                /\ lb_list' = <<>>
                /\ lb_result' = Nil
                /\ lb_run' = <<>>
                /\ cursors' = <<>>
    /\ LET early == th[t].call.op = "ChooseServer" /\ Len(th[t].call.arg) = 0
           released == IF early THEN {} ELSE ReleasedBy(t)
       IN  /\ mutex' = IF early THEN mutex
                       ELSE [writer |-> IF mutex.writer = t THEN 0 ELSE mutex.writer,
                             readers |-> (mutex.readers \ {t}) \cup released]
           /\ th' = [u \in Threads |->
                       IF u = t THEN [pc |-> "idle", call |-> NoCall, seen |-> NoBalancer]
                       ELSE IF u \in released THEN [th[u] EXCEPT !.pc = "locked"]
                       ELSE th[u]]
    /\ UNCHANGED <<chainVars, routerVars, gatewayVars, pm, cm, cr>>

\* Thread t writes what its method computed from what it read and returns:
\* the deferred mutex.Unlock() or mutex.RUnlock().
Unlock(t) ==
    /\ th[t].pc = "read"
    /\ LET call == th[t].call
           writes == Writes(lb.kind, call)
       IN  IF call.op = "ChooseServer"
           THEN \E o \in ChooseOutcomes(th[t].seen, call.arg) :
                   /\ Chose(call.arg, [b |-> Merged(lb, o.b, writes),
                                       result |-> o.result])
                   /\ cursors' = IF lb_op = "ChooseServer" /\ lb_list = call.arg
                                 THEN LastOf(Append(cursors, th[t].seen.currentIndex),
                                             MaxRun)
                                 ELSE <<th[t].seen.currentIndex>>
                   /\ got' = got
           ELSE IF call.op = "GetServers"
           THEN UNCHANGED <<lbVars, cursors, got>>
           ELSE /\ \E after \in CallOutcomes(th[t].seen, call) :
                      lb' = Merged(lb, after, writes)
                /\ got' \in SharedAfter(got, lb, call.op, call.arg)
                /\ lb_op' = call.op
                /\ lb_list' = <<>>
                /\ lb_result' = Nil
                /\ lb_run' = <<>>
                /\ cursors' = <<>>
    /\ mutex' = [writer |-> IF mutex.writer = t THEN 0 ELSE mutex.writer,
                 readers |-> (mutex.readers \ {t}) \cup ReleasedBy(t)]
    /\ th' = [u \in Threads |->
                IF u = t THEN [pc |-> "idle", call |-> NoCall, seen |-> NoBalancer]
                ELSE IF u \in ReleasedBy(t) THEN [th[u] EXCEPT !.pc = "locked"]
                ELSE th[u]]
    /\ UNCHANGED <<chainVars, routerVars, gatewayVars, pm, cm, cr>>

\* Thread t calls a method and reaches its mutex.Lock() or mutex.RLock().
Begin(t, call) ==
    /\ th[t].pc = "idle"
    /\ WithinBounds(call)
    /\ call.op = "ChooseServer" => lb.currentIndex < MaxWaitCursor
    /\ th' = [th EXCEPT ![t] = [pc |-> "waiting", call |-> call, seen |-> NoBalancer]]
    /\ UNCHANGED <<mutex, cursors, chainVars, routerVars, lbVars, gatewayVars, pm, got, cm, cr>>

\* No thread is inside mutex.Lock() past the writers' mutex or holds the
\* write lock.
NoWriter ==
    /\ mutex.writer = 0
    /\ \A u \in Threads : th[u].pc # "pending"

\* mutex.RLock() of thread t: it returns when no writer holds or waits for
\* the lock, and blocks until that writer's Unlock otherwise.
MutexRLock(t) ==
    /\ th[t].pc = "waiting"
    /\ LockMode(lb.kind, th[t].call.op) = "R"
    /\ IF NoWriter
       THEN /\ mutex' = [mutex EXCEPT !.readers = @ \cup {t}]
            /\ th' = [th EXCEPT ![t].pc = "locked"]
       ELSE /\ mutex' = mutex
            /\ th' = [th EXCEPT ![t].pc = "blocked"]
    /\ UNCHANGED <<cursors, chainVars, routerVars, lbVars, gatewayVars, pm, got, cm, cr>>

\* mutex.Lock() of thread t gets past the other writers and keeps new
\* readers out.
MutexLock(t) ==
    /\ th[t].pc = "waiting"
    /\ LockMode(lb.kind, th[t].call.op) = "W"
    /\ NoWriter
    /\ th' = [th EXCEPT ![t].pc = "pending"]
    /\ UNCHANGED <<mutex, cursors, chainVars, routerVars, lbVars, gatewayVars, pm, got, cm, cr>>

\* mutex.Lock() of thread t returns: the readers that held the lock have
\* left.
ReadersGone(t) ==
    /\ th[t].pc = "pending"
    /\ mutex.readers = {}
    /\ mutex' = [mutex EXCEPT !.writer = t]
    /\ th' = [th EXCEPT ![t].pc = "locked"]
    /\ UNCHANGED <<cursors, chainVars, routerVars, lbVars, gatewayVars, pm, got, cm, cr>>

\* The calls of the threads that wait for the lock.
WaitingCalls ==
    { Call("AddServer", Srv(U_1, 1)),
      Call("RemoveServer", U_1),
      Call("UpdateServer", Srv(U_1, 2)),
      Call("GetServers", <<>>),
      Call("ChooseServer", <<>>),
      Call("ChooseServer", <<Srv(U_1, 1)>>) }

WaitingNext ==
    \/ \E t \in Threads : \E call \in WaitingCalls : Begin(t, call)
    \/ \E t \in Threads : MutexRLock(t)
    \/ \E t \in Threads : MutexLock(t)
    \/ \E t \in Threads : ReadersGone(t)
    \/ \E t \in Threads : Read(t)
    \/ \E t \in Threads : Unlock(t)

\* A thread inside a method goes on to its return, and so does a thread
\* inside RLock or inside Lock behind the writers' mutex.  A thread that
\* waits for the writers' mutex gets it when it is free again and again:
\* sync.Mutex hands the lock to a waiter that waited long.
WaitingFairness ==
    \A t \in Threads :
        /\ WF_vars(Read(t))
        /\ WF_vars(Unlock(t))
        /\ WF_vars(MutexRLock(t))
        /\ WF_vars(ReadersGone(t))
        /\ SF_vars(MutexLock(t))

LockInit ==
    /\ mutex = [writer |-> 0, readers |-> {}]
    /\ th = [t \in Threads |-> [pc |-> "idle", call |-> NoCall, seen |-> NoBalancer]]
    /\ cursors = <<>>

LockIdle == LockInit

LockNext ==
    \/ \E t \in Threads : \E call \in ThreadCalls : Lock(t, call)
    \/ \E t \in Threads : Read(t)
    \/ \E t \in Threads : Unlock(t)

(***************************************************************************)
(* Dispatcher                                                              *)
(***************************************************************************)
U_lb == <<"l", "b", ":", "/", "/", "s">>   \* "lb://s"
U_bad == <<":", "x">>                      \* ":x"
LbPrefix == <<"l", "b", ":", "/", "/">>    \* "lb://"

Letters == {"a", "b", "c", "h", "l", "s", "x"}
SchemeMarks == {"0", "1", "2", "3", "+", "-", "."}
HexDigits == {"0", "1", "2", "3", "a", "b", "c"}

\* url.getScheme from position i on: the length of the scheme, 0 when the
\* URL has none, -1 for the error "missing protocol scheme".
RECURSIVE GetScheme(_, _)
GetScheme(rawURL, i) ==
    IF i > Len(rawURL) THEN 0
    ELSE IF rawURL[i] \in Letters THEN GetScheme(rawURL, i + 1)
    ELSE IF rawURL[i] \in SchemeMarks
         THEN IF i = 1 THEN 0 ELSE GetScheme(rawURL, i + 1)
    ELSE IF rawURL[i] = ":"
         THEN IF i = 1 THEN -1 ELSE i - 1
    ELSE 0

\* The first path segment of a URL without scheme holds a colon.
ColonInFirstSegment(rest) ==
    /\ rest # <<>>
    /\ rest[1] # "/"
    /\ \E i \in 1..Len(rest) :
          /\ rest[i] = ":"
          /\ \A j \in 1..(i - 1) : rest[j] # "/"

\* A "%" that is not followed by two hexadecimal digits.
BadEscape(rawURL) ==
    \E i \in 1..Len(rawURL) :
        /\ rawURL[i] = "%"
        /\ ~( /\ i + 2 <= Len(rawURL)
              /\ rawURL[i + 1] \in HexDigits
              /\ rawURL[i + 2] \in HexDigits )

\* url.Parse(rawURL) returns an error.
UrlParseError(rawURL) ==
    \/ Contains(rawURL, "\n")
    \/ GetScheme(rawURL, 1) = -1
    \/ GetScheme(rawURL, 1) = 0 /\ ColonInFirstSegment(rawURL)
    \/ BadEscape(rawURL)

\* reloadRoutes over the routes from position i on, from any of the tables:
\* the tables it can end with.
RECURSIVE TablesAfter(_, _, _)
TablesAfter(tables, routes, i) ==
    IF i > Len(routes) THEN tables
    ELSE TablesAfter(UNION {AddRouteResults(t, routes[i]) : t \in tables},
                     routes, i + 1)

\* The complete tables at this moment: the published one, or during a
\* reload the table before it and the tables it builds.
CompleteTables ==
    IF rl.pc = "idle" THEN {g_router} ELSE {rl.old} \cup rl.new

\* The routes of the configuration, the paths requested, the registered
\* middlewares.
Route(id, uri, order, args) ==
    [ID |-> id, URI |-> uri, Order |-> order,
     Predicates |-> <<Predicate("Path", args)>>]
G_api == Route("api", U_lb, 1, StrMap(S_a_deep))
G_all == Route("all", U_http, 2, StrMap(S_deep))
G_json == Route("json", U_http, 1, AnyMap(S_a_deep))
G_bad == Route("bad", U_bad, 0, StrMap(S_b_glob))
ConfigTables ==
    { <<>>, <<G_all, G_api>>, <<G_json, G_bad>> }
GatewayPaths == {S_a_b, S_b}
GatewayMiddlewares ==
    { <<>>,
      <<[pre |-> TRUE, postErr |-> FALSE], [pre |-> FALSE, postErr |-> TRUE]>> }
GatewayServers == {Srv(U_1, 1)}

\* The GatewayContext of a request: its route (the ID, "" for none), the
\* keys of its attribute map and its StartTime.
NoContext == [Route |-> "", Attributes |-> {}, StartTime |-> 0]

\* The times a request can start at, as time.Now().UnixNano() gives them.
Times == 1..MaxTime

NoRequest ==
    [pc |-> "idle", path |-> <<>>, start |-> 0, matched |-> Nil, complete |-> {},
     ctx |-> NoContext, calls |-> <<>>, chosen |-> Nil, target |-> <<>>,
     outcome |-> "none"]

NoReload == [pc |-> "idle", routes |-> <<>>, i |-> 1, old |-> <<>>, new |-> {}]

\* StaticConfigManager.SetConfig
SetConfig(routes) ==
    /\ g_config' = routes
    /\ UNCHANGED <<g_router, g_middlewares, rl, req>>
    /\ UNCHANGED <<chainVars, routerVars, lbVars, lockVars, pm, got, cm, cr>>

\* reloadRoutes, g.router = route.NewRouter(), and the evaluation of
\* g.configManager.GetRoutes() of the range statement.
ReloadStart ==
    /\ rl.pc = "idle"
    /\ g_router' = <<>>
    /\ rl' = [pc |-> IF Len(g_config) = 0 THEN "idle" ELSE "append",
              routes |-> g_config,
              i |-> 1,
              old |-> g_router,
              new |-> TablesAfter({<<>>}, g_config, 1)]
    /\ UNCHANGED <<g_config, g_middlewares, req>>
    /\ UNCHANGED <<chainVars, routerVars, lbVars, lockVars, pm, got, cm, cr>>

\* reloadRoutes, g.router.AddRoute(internalRoute): the append.
ReloadAppend ==
    /\ rl.pc = "append"
    /\ g_router' = Append(g_router, rl.routes[rl.i])
    /\ rl' = [rl EXCEPT !.pc = "sort"]
    /\ UNCHANGED <<g_config, g_middlewares, req>>
    /\ UNCHANGED <<chainVars, routerVars, lbVars, lockVars, pm, got, cm, cr>>

\* reloadRoutes, g.router.AddRoute(internalRoute): the sort, and the next
\* iteration of the loop.
ReloadSort ==
    /\ rl.pc = "sort"
    /\ g_router' \in SortSlice(g_router)
    /\ rl' = [rl EXCEPT !.pc = IF rl.i + 1 > Len(rl.routes)
                               THEN "idle" ELSE "append",
                        !.i = @ + 1]
    /\ UNCHANGED <<g_config, g_middlewares, req>>
    /\ UNCHANGED <<chainVars, routerVars, lbVars, lockVars, pm, got, cm, cr>>

\* ServeHTTP running the chain before it looks at what Match returned.
ServeMatch_ChainFirst(path, start) ==
    /\ req.pc \in {"idle", "done"}
    /\ LET m == RouterMatch(g_router, path)
       IN  req' = [NoRequest EXCEPT
                     !.pc = IF m.kind = "route" THEN "matched" ELSE "done",
                     !.path = path,
                     !.start = start,
                     !.matched = m,
                     !.complete = CompleteTables,
                     !.calls = ExecuteCalls(g_middlewares, 0),
                     !.outcome = IF m.kind = "route" THEN "none"
                                 ELSE IF m.kind = "nil" THEN "NotFound"
                                 ELSE "Panic"]
    /\ UNCHANGED <<g_router, g_config, g_middlewares, rl>>
    /\ UNCHANGED <<chainVars, routerVars, lbVars, lockVars, pm, got, cm, cr>>

\* ServeHTTP, g.router.Match(r.URL.Path) and the not-found return, for a
\* request that arrives at time start.  Match takes no lock: it reads the
\* table as it is at this moment.
ServeMatch(path, start) ==
    /\ req.pc \in {"idle", "done"}
    /\ LET m == RouterMatch(g_router, path)
       IN  req' = [NoRequest EXCEPT
                     !.pc = IF m.kind = "route" THEN "matched" ELSE "done",
                     !.path = path,
                     !.start = start,
                     !.matched = m,
                     !.complete = CompleteTables,
                     !.outcome = IF m.kind = "route" THEN "none"
                                 ELSE IF m.kind = "nil" THEN "NotFound"
                                 ELSE "Panic"]
    /\ UNCHANGED <<g_router, g_config, g_middlewares, rl>>
    /\ UNCHANGED <<chainVars, routerVars, lbVars, lockVars, pm, got, cm, cr>>

\* ServeHTTP, the context and chain.Execute(gatewayCtx) on a new chain.
ServeChain ==
    /\ req.pc = "matched"
    /\ req' = [req EXCEPT !.pc = "chained",
                          !.ctx = [Route |-> req.matched.route.ID,
                                   Attributes |-> {},
                                   StartTime |-> 0],
                          !.calls = ExecuteCalls(g_middlewares, 0)]
    /\ UNCHANGED <<g_router, g_config, g_middlewares, rl>>
    /\ UNCHANGED <<chainVars, routerVars, lbVars, lockVars, pm, got, cm, cr>>

\* ServeHTTP handing every target to the reverse proxy.
Forwarded_Unparsed(chosen, targetURL) ==
    req' = [req EXCEPT !.pc = "done",
                       !.chosen = chosen,
                       !.target = targetURL,
                       !.outcome = "Proxy"]

\* The end of ServeHTTP for the target: url.Parse, then the error response
\* or the reverse proxy.
Forwarded(chosen, targetURL) ==
    req' = [req EXCEPT !.pc = "done",
                       !.chosen = chosen,
                       !.target = targetURL,
                       !.outcome = IF UrlParseError(targetURL)
                                   THEN "InternalError" ELSE "Proxy"]

\* ServeHTTP asking the balancer for every route.
ServeForward_AlwaysBalanced ==
    /\ req.pc = "chained"
    /\ LET targetURL == req.matched.route.URI
           servers == GetServersOf(lb)
       IN  IF Len(servers) > 0
           THEN /\ lb.currentIndex < MaxForwards
                /\ \E o \in ChooseOutcomes(lb, servers) :
                      /\ Chose(servers, o)
                      /\ Forwarded(o.result,
                                   IF o.result.kind = "server"
                                   THEN o.result.server.URL ELSE targetURL)
           ELSE /\ Forwarded(Nil, targetURL)
                /\ UNCHANGED lbVars
    /\ UNCHANGED <<g_router, g_config, g_middlewares, rl>>
    /\ UNCHANGED <<chainVars, routerVars, lockVars, pm, got, cm, cr>>

\* ServeHTTP from "Determine target URL" on.
ServeForward ==
    /\ req.pc = "chained"
    /\ LET targetURL == req.matched.route.URI
           servers == GetServersOf(lb)
       IN  IF HasPrefix(targetURL, LbPrefix) /\ Len(servers) > 0
           THEN /\ lb.currentIndex < MaxForwards
                /\ \E o \in ChooseOutcomes(lb, servers) :
                      /\ Chose(servers, o)
                      /\ Forwarded(o.result,
                                   IF o.result.kind = "server"
                                   THEN o.result.server.URL ELSE targetURL)
           ELSE /\ Forwarded(Nil, targetURL)
                /\ UNCHANGED lbVars
    /\ UNCHANGED <<g_router, g_config, g_middlewares, rl>>
    /\ UNCHANGED <<chainVars, routerVars, lockVars, pm, got, cm, cr>>

\* NewGateway, then a configuration and its routes loaded.
GatewayInit ==
    /\ g_config \in ConfigTables
    /\ g_router \in TablesAfter({<<>>}, g_config, 1)
    /\ g_middlewares \in GatewayMiddlewares
    /\ rl = NoReload
    /\ req = NoRequest

GatewayIdle ==
    /\ g_config = <<>>
    /\ g_router = <<>>
    /\ g_middlewares = <<>>
    /\ rl = NoReload
    /\ req = NoRequest

GatewayNext ==
    \/ \E routes \in ConfigTables : SetConfig(routes)
    \/ ReloadStart
    \/ ReloadAppend
    \/ ReloadSort
    \/ \E path \in GatewayPaths : \E start \in Times : ServeMatch(path, start)
    \/ ServeChain
    \/ ServeForward
    \/ \E server \in GatewayServers : AddServer(server)
    \/ \E server \in GatewayServers : RemoveServer(server.URL)

(***************************************************************************)
(* Concurrent requests: the context and the chain of ServeHTTP             *)
(***************************************************************************)
Requests == 1..NumRequests

\* One chain and one attribute map for all invocations.
Instance_Shared(r) == 1

\* The chain and the attribute map invocation r works on: the ones its own
\* NewMiddlewareChain and make(map[string]interface{}) returned.
Instance(r) == r

\* The locals of Execute and the calls it made: not started.
NotServing == [pc |-> "idle", i |-> 0, startIndex |-> 0, calls |-> <<>>]

\* Invocation r builds its context and its chain.
ServeContext(r) ==
    /\ cr.run[r].pc \in {"idle", "done"}
    /\ cr' = [cr EXCEPT
                !.chains[Instance(r)] = [index |-> 0, users |-> {r}],
                !.attrs[Instance(r)] = {},
                !.run[r] = [pc |-> "forward", i |-> 0, startIndex |-> 0,
                            calls |-> <<>>]]
    /\ UNCHANGED <<chainVars, routerVars, lbVars, lockVars, gatewayVars, pm, got, cm>>

\* One round of the forward loop of Execute in invocation r, and startIndex
\* when the loop ends.  PreHandle may write the context's attributes; the
\* key names the invocation that wrote it.
ExecuteForward(r) ==
    /\ cr.run[r].pc = "forward"
    /\ LET c == Instance(r)
           index == cr.chains[c].index
       IN  IF index < Len(g_middlewares)
           THEN cr' = [cr EXCEPT
                         !.chains[c] = [index |-> index + 1, users |-> @.users \cup {r}],
                         !.attrs[c] = @ \cup {<<r, index>>},
                         !.run[r] =
                            IF g_middlewares[index + 1].pre
                            THEN [@ EXCEPT !.calls = Append(@, Pre(index))]
                            ELSE [pc |-> "backward",
                                  i |-> Len(g_middlewares) - 1,
                                  startIndex |-> StartIndex(index + 1),
                                  calls |-> Append(@.calls, Pre(index))]]
           ELSE cr' = [cr EXCEPT
                         !.chains[c].users = @ \cup {r},
                         !.run[r] = [@ EXCEPT !.pc = "backward",
                                              !.i = Len(g_middlewares) - 1,
                                              !.startIndex = StartIndex(index)]]
    /\ UNCHANGED <<chainVars, routerVars, lbVars, lockVars, gatewayVars, pm, got, cm>>

\* One round of the backward loop of Execute in invocation r, or its end.
ExecuteBackward(r) ==
    /\ cr.run[r].pc = "backward"
    /\ LET i == cr.run[r].i
       IN  IF i >= cr.run[r].startIndex
           THEN cr' = [cr EXCEPT
                         !.run[r].i = i - 1,
                         !.run[r].calls =
                            @ \o <<Post(i)>>
                              \o (IF g_middlewares[i + 1].postErr
                                  THEN <<HErr(i)>> ELSE <<>>)]
           ELSE cr' = [cr EXCEPT !.run[r].pc = "done"]
    /\ UNCHANGED <<chainVars, routerVars, lbVars, lockVars, gatewayVars, pm, got, cm>>

RequestsIdle ==
    cr = [chains |-> [c \in Requests |-> [index |-> 0, users |-> {}]],
          attrs |-> [c \in Requests |-> {}],
          run |-> [r \in Requests |-> NotServing]]

RequestsNext ==
    \/ \E r \in Requests : ServeContext(r)
    \/ \E r \in Requests : ExecuteForward(r)
    \/ \E r \in Requests : ExecuteBackward(r)

(***************************************************************************)
(* StaticConfigManager: AddRoute, UpdateRoute, DeleteRoute                 *)
(***************************************************************************)
ErrNotExist == "os.ErrNotExist"
NoError == "nil"

ConfigIDs == {"r1", "r2", "r3"}
ConfigRoutes == { Route(id, uri, 0, NilArgs) : id \in ConfigIDs, uri \in {U_http, U_lb} }

\* The position of the first route with this ID, 0 when there is none: where
\* the loops "for i, r := range scm.config.Routes" stop.
IndexOfID(routes, id) ==
    IF \E i \in 1..Len(routes) : routes[i].ID = id
    THEN CHOOSE i \in 1..Len(routes) :
            /\ routes[i].ID = id
            /\ \A j \in 1..(i - 1) : routes[j].ID # id
    ELSE 0

\* AddRoute appending without looking at the IDs it holds.
AddRouteTo_Append(routes, route) == Append(routes, route)

\* scm.config.Routes after AddRoute(route).
AddRouteTo(routes, route) ==
    LET i == IndexOfID(routes, route.ID)
    IN  IF i > 0 THEN [routes EXCEPT ![i] = route] ELSE Append(routes, route)

\* UpdateRoute adding the route it does not find.
UpdateRouteIn_Upsert(routes, route) ==
    LET i == IndexOfID(routes, route.ID)
    IN  IF i > 0
        THEN [routes |-> [routes EXCEPT ![i] = route], err |-> NoError]
        ELSE [routes |-> Append(routes, route), err |-> NoError]

\* scm.config.Routes after UpdateRoute(route), and the error it returns.
UpdateRouteIn(routes, route) ==
    LET i == IndexOfID(routes, route.ID)
    IN  IF i > 0
        THEN [routes |-> [routes EXCEPT ![i] = route], err |-> NoError]
        ELSE [routes |-> routes, err |-> ErrNotExist]

\* scm.config.Routes after DeleteRoute(id), and the error it returns.
DeleteRouteFrom(routes, id) ==
    LET i == IndexOfID(routes, id)
    IN  IF i > 0
        THEN [routes |-> SubSeq(routes, 1, i - 1) \o SubSeq(routes, i + 1, Len(routes)),
              err |-> NoError]
        ELSE [routes |-> routes, err |-> ErrNotExist]

NoConfigCall == [op |-> "none", id |-> "", route |-> <<>>, before |-> <<>>, err |-> NoError]

ConfigAddRoute(route) ==
    /\ g_config' = AddRouteTo(g_config, route)
    /\ cm' = [op |-> "AddRoute", id |-> route.ID, route |-> route,
              before |-> g_config, err |-> NoError]
    /\ UNCHANGED <<g_router, g_middlewares, rl, req>>
    /\ UNCHANGED <<chainVars, routerVars, lbVars, lockVars, pm, got, cr>>

ConfigUpdateRoute(route) ==
    /\ LET r == UpdateRouteIn(g_config, route)
       IN  /\ g_config' = r.routes
           /\ cm' = [op |-> "UpdateRoute", id |-> route.ID, route |-> route,
                     before |-> g_config, err |-> r.err]
    /\ UNCHANGED <<g_router, g_middlewares, rl, req>>
    /\ UNCHANGED <<chainVars, routerVars, lbVars, lockVars, pm, got, cr>>

ConfigDeleteRoute(id) ==
    /\ LET r == DeleteRouteFrom(g_config, id)
       IN  /\ g_config' = r.routes
           /\ cm' = [op |-> "DeleteRoute", id |-> id, route |-> <<>>,
                     before |-> g_config, err |-> r.err]
    /\ UNCHANGED <<g_router, g_middlewares, rl, req>>
    /\ UNCHANGED <<chainVars, routerVars, lbVars, lockVars, pm, got, cr>>

ConfigIdle == cm = NoConfigCall

ConfigNext ==
    \/ \E route \in ConfigRoutes : ConfigAddRoute(route)
    \/ \E route \in ConfigRoutes : ConfigUpdateRoute(route)
    \/ \E id \in ConfigIDs : ConfigDeleteRoute(id)

(***************************************************************************)
(* Claims about the middleware chain                                       *)
(***************************************************************************)
\* The PreHandle and PostHandle calls of a call sequence, in order.
PrePostCalls(calls) == SelectSeq(calls, LAMBDA c : c[1] # "HandleError")

\* PreHandle of handlers 0..k in order, then PostHandle of k..0.
SymmetricCalls(k) ==
    [j \in 1..(2 * (k + 1)) |->
        IF j <= k + 1 THEN Pre(j - 1) ELSE Post(2 * (k + 1) - j)]

\* The last operation was Execute on a chain whose index was 0.
ExecutedFresh == mc_op = "Execute" /\ mc_index0 = 0

\* k is the index of the first handler whose PreHandle returns false.
FirstFalse(k) ==
    /\ k \in 0..(Len(mc_handlers) - 1)
    /\ ~mc_handlers[k + 1].pre
    /\ \A j \in 0..(k - 1) : mc_handlers[j + 1].pre

AllPass == \A j \in 1..Len(mc_handlers) : mc_handlers[j].pre

\* C1: when handler k is the first whose PreHandle returns false, Execute
\* calls PreHandle of handlers 0..k, then PostHandle of handlers k..0, and
\* no method of a later handler.
C1_ShortCircuitCalls ==
    \A k \in 0..(MaxHandlers - 1) :
        (ExecutedFresh /\ FirstFalse(k))
            => PrePostCalls(mc_calls) = SymmetricCalls(k)

\* C2: when every PreHandle returns true, Execute over n >= 1 handlers calls
\* PreHandle of handlers 0..n-1 and then PostHandle of every handler once,
\* in the order n-1..0.
C2_AllPassCalls ==
    (ExecutedFresh /\ Len(mc_handlers) >= 1 /\ AllPass)
        => PrePostCalls(mc_calls) = SymmetricCalls(Len(mc_handlers) - 1)

\* The handlers with a PostHandle that returns no error.
WithoutErrors(handlers) ==
    [j \in 1..Len(handlers) |-> [handlers[j] EXCEPT !.postErr = FALSE]]

\* C17: in the backward pass of Execute, a PostHandle that returns an error
\* is followed at once by HandleError of the same handler; HandleError is
\* called for no handler whose PostHandle returned no error; and the pass
\* goes on to the same handlers as it does when no PostHandle fails.
C17_HandleErrorFollowsPostHandle ==
    mc_op = "Execute"
        => /\ \A p \in 1..Len(mc_calls) :
                 (mc_calls[p][1] = "PostHandle"
                      /\ mc_handlers[mc_calls[p][2] + 1].postErr)
                     => /\ p < Len(mc_calls)
                        /\ mc_calls[p + 1] = HErr(mc_calls[p][2])
           /\ \A p \in 1..Len(mc_calls) :
                 mc_calls[p][1] = "HandleError"
                     => /\ p > 1
                        /\ mc_calls[p - 1] = Post(mc_calls[p][2])
                        /\ mc_handlers[mc_calls[p][2] + 1].postErr
           /\ PrePostCalls(mc_calls)
                  = ExecuteCalls(WithoutErrors(mc_handlers), mc_index0)

\* A PostHandle failed, its HandleError was called, and the pass went on to
\* a handler whose PostHandle did not fail.
C17_Witness ==
    /\ mc_op = "Execute"
    /\ \E p \in 2..(Len(mc_calls) - 1) :
          /\ mc_calls[p][1] = "HandleError"
          /\ mc_calls[p + 1][1] = "PostHandle"
          /\ ~mc_handlers[mc_calls[p + 1][2] + 1].postErr
          /\ p + 1 = Len(mc_calls)

\* C35: ExecuteNext on a chain whose index is 0 calls PostHandle for the
\* handlers whose PreHandle was called, the one that returned false
\* included, in the reverse order of the PreHandle calls, and leaves the
\* index at 0.
C35_ExecuteNextSymmetric ==
    (mc_op = "ExecuteNext" /\ mc_index0 = 0)
        => LET pres == Len(SelectSeq(mc_calls, LAMBDA c : c[1] = "PreHandle"))
           IN  /\ PrePostCalls(mc_calls) = SymmetricCalls(pres - 1)
               /\ mc_index = 0

(***************************************************************************)
(* Claims about the route table                                            *)
(***************************************************************************)
\* A predicate that matches the path: a Path predicate whose payload carries
\* a pattern that matches it, whatever the Go type of the payload.
PredicateMatches(predicate, path) ==
    /\ predicate.Name = "Path"
    /\ predicate.Args.ok
    /\ pathMatch(predicate.Args.pattern, path)

RouteMatches(route, path) ==
    \E i \in 1..Len(route.Predicates) : PredicateMatches(route.Predicates[i], path)

DistinctOrders(routes) ==
    \A i, j \in 1..Len(routes) : i # j => routes[i].Order # routes[j].Order

\* C3: with pairwise distinct Order values, Match returns the route of the
\* smallest Order among the added routes that have a predicate matching
\* the path.
C3_MatchSmallestOrder ==
    (rt_op = "Match" /\ DistinctOrders(rt_routes))
        => \A i \in 1..Len(rt_routes) :
              ( /\ RouteMatches(rt_routes[i], rt_path)
                /\ \A j \in 1..Len(rt_routes) :
                      RouteMatches(rt_routes[j], rt_path)
                          => rt_routes[i].Order <= rt_routes[j].Order )
                  => rt_result = Found(rt_routes[i])

\* C9: Match never fails: whatever the table holds, it returns a route or
\* nil and does not panic.
C9_MatchNeverPanics ==
    rt_op = "Match" => rt_result.kind \in {"route", "nil"}

\* C10: the route table never holds two routes with the same ID.
C10_RouterUniqueIDs ==
    \A i, j \in 1..Len(rt_routes) : i # j => rt_routes[i].ID # rt_routes[j].ID

\* The first route in table order, from position i on, that has a predicate
\* matching the path; nil when there is none.
RECURSIVE FirstMatching(_, _, _)
FirstMatching(routes, i, path) ==
    IF i > Len(routes) THEN Nil
    ELSE IF RouteMatches(routes[i], path) THEN Found(routes[i])
    ELSE FirstMatching(routes, i + 1, path)

\* C11: Match returns the first route in table order that has at least one
\* Path predicate matching the path, and nil when no route has one, as on
\* the empty table.
C11_MatchFirstInTableOrder ==
    rt_op = "Match" => rt_result = FirstMatching(rt_routes, 1, rt_path)

\* C12: after every AddRoute, in every reachable state, the table is
\* non-decreasing by Order.
C12_TableSortedByOrder ==
    \A i, j \in 1..Len(rt_routes) :
        i < j => rt_routes[i].Order <= rt_routes[j].Order

\* AddRoute left a full table whose routes are not all of one Order.
C12_Witness ==
    /\ rt_op = "AddRoute"
    /\ Len(rt_routes) >= 3
    /\ rt_routes[1].Order < rt_routes[2].Order
    /\ rt_routes[2].Order < rt_routes[3].Order

\* The sorted table with the route put behind the routes whose Order is not
\* greater than its own.
StableInsert(routes, route) ==
    LET k == Cardinality({i \in 1..Len(routes) : routes[i].Order <= route.Order})
    IN  SubSeq(routes, 1, k) \o <<route>> \o SubSeq(routes, k + 1, Len(routes))

\* C13: every AddRoute keeps the routes of equal Order in the order they
\* were added: the table it leaves is the table before it with the new
\* route behind the routes of the same and of smaller Order.
C13_TiesKeepInsertionOrder ==
    [][ (rt_op' = "AddRoute" /\ Len(rt_routes') = Len(rt_routes) + 1)
            => \E route \in RouteInputs :
                  rt_routes' = StableInsert(rt_routes, route) ]_vars

\* C14: for a pattern ending in /**, pathMatch is true exactly when the path
\* starts with the pattern without its last three characters: /a/** matches
\* /a/b and /a, and /** matches every path.
C14_DeepWildcardIsPrefix ==
    LET n == Len(pm.pattern) - 3
    IN  ( /\ pm.op = "pathMatch"
          /\ n >= 0
          /\ SubSeq(pm.pattern, n + 1, n + 3) = <<"/", "*", "*">> )
            => pm.result = ( /\ Len(pm.path) >= n
                             /\ \A i \in 1..n : pm.path[i] = pm.pattern[i] )

\* /a/** was matched against /a, the path without the slash.
C14_Witness ==
    /\ pm.op = "pathMatch"
    /\ pm.pattern = S_a_deep
    /\ pm.path = S_a
    /\ pm.result

\* The one "*" of the pattern stands for a run of characters of one path
\* level: the path is the pattern with the "*" replaced by characters other
\* than "/".
SingleLevelMatch(pattern, path) ==
    \E k \in 1..Len(pattern) :
        /\ pattern[k] = "*"
        /\ Len(path) >= Len(pattern) - 1
        /\ LET m == Len(path) - (Len(pattern) - 1)
           IN  /\ SubSeq(path, 1, k - 1) = SubSeq(pattern, 1, k - 1)
               /\ SubSeq(path, k + m, Len(path))
                      = SubSeq(pattern, k + 1, Len(pattern))
               /\ \A i \in k..(k + m - 1) : path[i] # "/"

Stars(pattern) == Cardinality({k \in 1..Len(pattern) : pattern[k] = "*"})

\* C15: a pattern with a single "*" that does not end in /** is a
\* single-level wildcard: /a/* matches /a/b and does not match /a/b/c.
C15_SingleLevelWildcard ==
    (pm.op = "pathMatch" /\ Stars(pm.pattern) = 1)
        => pm.result = SingleLevelMatch(pm.pattern, pm.path)

\* C16: for a pattern without "*", pathMatch is true exactly when the path
\* is the pattern.
C16_ExactMatch ==
    (pm.op = "pathMatch" /\ Stars(pm.pattern) = 0)
        => pm.result = (pm.path = pm.pattern)

\* A pattern without "*" was matched against a path that it is a proper
\* prefix of.
C16_Witness ==
    /\ pm.op = "pathMatch"
    /\ pm.pattern = S_a
    /\ pm.path = S_a_b
    /\ ~pm.result

(***************************************************************************)
(* Claims about the load balancers                                         *)
(***************************************************************************)
UniquelyAddressed(servers) == UniqueServers(servers) = servers

\* How many results of run[from..to] are the server.
RECURSIVE Chosen(_, _, _, _)
Chosen(run, from, to, server) ==
    IF from > to THEN 0
    ELSE (IF run[from] = ChoseServer(server) THEN 1 ELSE 0)
         + Chosen(run, from + 1, to, server)

\* The run consists of ChooseServer(GetServers()) calls on an unchanged balancer.
LiveRun == lb_op = "ChooseServer" /\ lb_list = GetServersOf(lb)

C6_WeightedProportion ==
    LET W == SumWeights(lb_list)
    IN  ( /\ lb.kind = "WeightedRoundRobin"
          /\ lb_op = "ChooseServer"
          /\ UniquelyAddressed(lb_list)
          /\ W > 0 )
        => \A from \in 1..MaxRun :
              from + W - 1 <= Len(lb_run)
                  => \A j \in 1..Len(lb_list) :
                        Chosen(lb_run, from, from + W - 1, lb_list[j])
                            = lb_list[j].Weight

\* W calls were made on a list that holds a server of weight 0 and one of
\* weight 2, by a balancer that holds other servers than the list.
C6_Witness ==
    /\ lb.kind = "WeightedRoundRobin"
    /\ lb_op = "ChooseServer"
    /\ UniquelyAddressed(lb_list)
    /\ \E i, j \in 1..Len(lb_list) : lb_list[i].Weight = 0 /\ lb_list[j].Weight = 2
    /\ Len(lb_run) >= SumWeights(lb_list)
    /\ lb.servers # lb_list
    /\ lb.totalWeight # SumWeights(lb_list)

\* C7: under any interleaving of calls on one balancer, no two threads
\* access the same part of its state at the same time when one of the
\* accesses is a write.
C7_NoDataRace ==
    \A t1, t2 \in Threads :
        (t1 # t2 /\ th[t1].pc # "idle" /\ th[t2].pc # "idle")
            => Writes(lb.kind, th[t1].call)
                   \cap (Reads(lb.kind, th[t2].call)
                         \cup Writes(lb.kind, th[t2].call)) = {}

\* Position i of the list holds the first entry with its address.
FirstOccurrence(servers, i) ==
    \A j \in 1..(i - 1) : servers[j].URL # servers[i].URL

\* The first occurrence that follows position i, cyclically.
NextOccurrence(servers, i) ==
    LET later == {k \in (i + 1)..Len(servers) : FirstOccurrence(servers, k)}
    IN  IF later = {} THEN 1
        ELSE CHOOSE k \in later : \A m \in later : k <= m

\* C19: ChooseServer of every strategy selects among the first occurrences
\* of the addresses of its input list; round-robin over a list with D
\* distinct addresses returns them in a cycle of period D, each once per
\* cycle, whatever duplicates the list holds.
C19_DuplicatesCoalesced ==
    (lb_op = "ChooseServer" /\ Len(lb_list) >= 1)
        => /\ \E i \in 1..Len(lb_list) :
                 /\ FirstOccurrence(lb_list, i)
                 /\ lb_result = ChoseServer(lb_list[i])
           /\ lb.kind = "RoundRobin"
                 => \A p \in 1..(Len(lb_run) - 1) :
                       \E i \in 1..Len(lb_list) :
                           /\ FirstOccurrence(lb_list, i)
                           /\ lb_run[p] = ChoseServer(lb_list[i])
                           /\ lb_run[p + 1]
                                  = ChoseServer(lb_list[NextOccurrence(lb_list, i)])

\* Round-robin went through more than a cycle of a list of three entries
\* with two distinct addresses.
C19_Witness ==
    /\ lb.kind = "RoundRobin"
    /\ lb_op = "ChooseServer"
    /\ Len(lb_list) = 3
    /\ ~UniquelyAddressed(lb_list)
    /\ Len(lb_run) >= 3

\* C20: ChooseServer of each of the three balancers, in any state, returns
\* nil for an empty list.
C20_EmptyListGivesNil ==
    (lb_op = "ChooseServer" /\ lb_list = <<>>) => lb_result = Nil

\* A weighted balancer that holds servers and has advanced its cursor was
\* given the empty list.
C20_Witness ==
    /\ lb.kind = "WeightedRoundRobin"
    /\ lb_op = "ChooseServer"
    /\ lb_list = <<>>
    /\ Len(lb.servers) > 0
    /\ lb.currentIndex > 0

\* C21: ChooseServer of each of the three balancers, in any state, returns
\* for a non-empty list a server with the address and the weight of an
\* element of that list, never nil and never a server the list lacks.
C21_ChosenIsInList ==
    (lb_op = "ChooseServer" /\ Len(lb_list) >= 1)
        => /\ lb_result.kind = "server"
           /\ \E i \in 1..Len(lb_list) :
                 /\ lb_result.server.URL = lb_list[i].URL
                 /\ lb_result.server.Weight = lb_list[i].Weight

\* A random balancer chose from a list that shares no entry with the
\* servers it holds.
C21_Witness ==
    /\ lb.kind = "Random"
    /\ lb_op = "ChooseServer"
    /\ Len(lb_list) >= 1
    /\ Len(lb.servers) >= 1
    /\ \A i \in 1..Len(lb.servers) : \A j \in 1..Len(lb_list) :
          lb.servers[i] # lb_list[j]
    /\ lb_result.kind = "server"

\* C22: the list GetServers returned is a copy: no step changes both the
\* servers of the balancer and the slice a caller holds, so AddServer,
\* RemoveServer and UpdateServer leave the slice as it was returned, and an
\* assignment to the slice leaves the balancer and what GetServers returns
\* next as they were.
C22_GetServersReturnsCopy ==
    [][ /\ lb'.servers # lb.servers => got' = got
        /\ got'.list # got.list => lb' = lb ]_vars

\* The caller holds a slice that differs from the servers of the balancer,
\* after a mutation of the balancer.
C22_Witness ==
    /\ lb_op \in {"AddServer", "RemoveServer", "UpdateServer"}
    /\ Len(got.list) >= 2
    /\ Len(lb.servers) >= 1
    /\ got.list # lb.servers

\* C31: the servers a balancer holds, which GetServers returns, have
\* pairwise different addresses.
C31_OneServerPerAddress ==
    \A i, j \in 1..Len(GetServersOf(lb)) :
        GetServersOf(lb)[i].URL = GetServersOf(lb)[j].URL => i = j

\* C32: the stored total weight of a weighted balancer is the sum of the
\* weights of the servers it holds.
C32_TotalWeightIsSum ==
    lb.kind = "WeightedRoundRobin" => lb.totalWeight = SumWeights(lb.servers)

\* UpdateServer changed the weight of the first of two servers of one
\* address.
C32_Witness ==
    /\ lb.kind = "WeightedRoundRobin"
    /\ lb_op = "UpdateServer"
    /\ Len(lb.servers) = 2
    /\ lb.servers[1].URL = lb.servers[2].URL
    /\ lb.servers[1].Weight = 0
    /\ lb.totalWeight > 0

\* C33: a weighted ChooseServer returns the same server and leaves the same
\* cursor as a balancer of the same cursor that holds any other servers and
\* any other stored total weight.
C33_ChoiceIgnoresStoredState ==
    [][ (lb.kind = "WeightedRoundRobin" /\ lb_op' = "ChooseServer")
          => \A servers \in InputLists : \A total \in 0..(MaxServers * MaxWeight) :
                LET other == [lb EXCEPT !.servers = servers, !.totalWeight = total]
                    o == WeightedChoose(other, lb_list')
                IN  /\ o.result = lb_result'
                    /\ o.b.currentIndex = lb'.currentIndex ]_vars

\* ChooseServer ran on a list of total weight 3 in a balancer that holds
\* one server of weight 1.
C33_Witness ==
    /\ lb.kind = "WeightedRoundRobin"
    /\ lb_op = "ChooseServer"
    /\ SumWeights(lb_list) = 3
    /\ lb.totalWeight = 1
    /\ Len(lb.servers) = 1
    /\ Len(lb_run) >= 2

\* C34: on a list whose deduplicated weights sum to 0, a weighted
\* ChooseServer returns the server at position cursor mod count and raises
\* the cursor by one, and count consecutive calls return every server once.
C34_ZeroWeightsRoundRobin ==
    /\ [][ ( /\ lb.kind = "WeightedRoundRobin"
             /\ lb_op' = "ChooseServer"
             /\ Len(lb_list') >= 1
             /\ SumWeights(UniqueServers(lb_list')) = 0 )
           => LET unique == UniqueServers(lb_list')
              IN  /\ lb_result' = ChoseServer(
                          unique[(lb.currentIndex % Len(unique)) + 1])
                  /\ lb'.currentIndex = lb.currentIndex + 1 ]_vars
    /\ [] ( ( /\ lb.kind = "WeightedRoundRobin"
              /\ lb_op = "ChooseServer"
              /\ Len(lb_list) >= 1
              /\ SumWeights(UniqueServers(lb_list)) = 0 )
            => LET unique == UniqueServers(lb_list)
                   count == Len(unique)
               IN  \A from \in 1..MaxRun :
                      from + count - 1 <= Len(lb_run)
                          => \A j \in 1..count :
                                Chosen(lb_run, from, from + count - 1, unique[j]) = 1 )

\* Four consecutive calls ran on a list of two servers of weight 0.
C34_Witness ==
    /\ lb.kind = "WeightedRoundRobin"
    /\ lb_op = "ChooseServer"
    /\ Len(lb_list) = 2
    /\ SumWeights(lb_list) = 0
    /\ UniquelyAddressed(lb_list)
    /\ Len(lb_run) >= 4

\* C39: after RemoveServer(address) the balancer holds no server of that
\* address, and after UpdateServer(server) every server it holds of that
\* address has the new weight.
C39_RemoveAndUpdateReachAll ==
    [][ /\ \A url \in ServerURLs :
              (lb_op' = "RemoveServer" /\ lb' = RemoveServerFrom(lb, url))
                  => \A i \in 1..Len(GetServersOf(lb')) :
                        GetServersOf(lb')[i].URL # url
        /\ \A server \in Servers :
              (lb_op' = "UpdateServer" /\ lb' = UpdateServerIn(lb, server))
                  => \A i \in 1..Len(lb'.servers) :
                        lb'.servers[i].URL = server.URL
                            => lb'.servers[i].Weight = server.Weight ]_vars

\* C30: the cursor of a round-robin balancer never gets lower, whatever
\* operation runs.
C30_CursorNeverLowered ==
    [][lb.kind = "RoundRobin" => lb'.currentIndex >= lb.currentIndex]_vars

\* C18: when threads call ChooseServer of one round-robin balancer with the
\* same list of K >= 1 uniquely addressed servers and nothing else runs, no
\* cursor update is lost: the calls work from distinct consecutive cursor
\* values, the cursor ends one higher per call, and the numbers of times
\* any two servers were chosen differ by at most 1.
C18_NoLostCursorUpdate ==
    ( /\ lb.kind = "RoundRobin"
      /\ lb_op = "ChooseServer"
      /\ Len(lb_list) >= 1
      /\ UniquelyAddressed(lb_list) )
        => /\ Len(cursors) = Len(lb_run)
           /\ \A i \in 1..(Len(cursors) - 1) : cursors[i + 1] = cursors[i] + 1
           /\ lb.currentIndex = cursors[1] + Len(cursors)
           /\ \A j, k \in 1..Len(lb_list) :
                  Chosen(lb_run, 1, Len(lb_run), lb_list[j])
                      <= Chosen(lb_run, 1, Len(lb_run), lb_list[k]) + 1

\* Three calls on a list of two servers returned while another thread was
\* inside ChooseServer with the same list.
C18_Witness ==
    /\ lb.kind = "RoundRobin"
    /\ lb_op = "ChooseServer"
    /\ Len(lb_list) = 2
    /\ UniquelyAddressed(lb_list)
    /\ Len(lb_run) >= 3
    /\ \E t \in Threads :
          /\ th[t].pc = "locked"
          /\ th[t].call = Call("ChooseServer", lb_list)

\* C40: every call a thread makes on the balancer returns.
C40_EveryCallReturns ==
    \A t \in Threads : (th[t].pc # "idle") ~> (th[t].pc = "idle")

\* A reader was kept out by a thread that called ChooseServer with the
\* empty list and now holds the lock for writing.
C40_Witness ==
    \E t1, t2 \in Threads :
        /\ th[t1].pc = "blocked"
        /\ th[t2].call = Call("ChooseServer", <<>>)
        /\ mutex.writer = t2
        /\ th[t2].pc = "read"

(***************************************************************************)
(* Claims about the dispatcher                                             *)
(***************************************************************************)
\* C4: a ServeHTTP that runs while reloadRoutes replaces the route table
\* matches what Match returns on the complete old table or on the complete
\* new table, never what a partially populated table gives.
C4_ReloadAtomic ==
    req.pc # "idle"
        => req.matched \in {RouterMatch(t, req.path) : t \in req.complete}

\* C8: a request that matched a route of the load-balanced form for which
\* the balancer gave no server ends in a failure response: it is not handed
\* to the proxy with the lb:// reference or an empty target.
C8_NoServerFails ==
    ( /\ req.pc = "done"
      /\ req.matched.kind = "route"
      /\ HasPrefix(req.matched.route.URI, LbPrefix)
      /\ req.chosen = Nil )
        => /\ req.outcome = "InternalError"
           /\ ~(req.outcome = "Proxy" /\ HasPrefix(req.target, LbPrefix))
           /\ ~(req.outcome = "Proxy" /\ req.target = <<>>)

\* C23: when Match returns nil, ServeHTTP answers not-found and does
\* nothing else: it calls no middleware, leaves the balancer as it is and
\* hands nothing to the proxy.
C23_NotFoundDoesNothingElse ==
    [][ (req' # req /\ req'.pc = "done" /\ req'.matched = Nil)
          => /\ req'.outcome = "NotFound"
             /\ req'.calls = <<>>
             /\ req'.chosen = Nil
             /\ req'.target = <<>>
             /\ lb' = lb ]_vars

\* A request found no route in a gateway that has middlewares and a server.
C23_Witness ==
    /\ req.pc = "done"
    /\ req.matched = Nil
    /\ g_middlewares # <<>>
    /\ Len(lb.servers) > 0

\* C24: a request whose resolved target does not parse as a URL is answered
\* with an internal error and not handed to the proxy, and the gateway
\* takes the next request.
C24_UnparsableTargetIsInternalError ==
    (req.pc = "done" /\ req.matched.kind = "route" /\ UrlParseError(req.target))
        => /\ req.outcome = "InternalError"
           /\ \A path \in GatewayPaths : \A start \in Times :
                 ENABLED ServeMatch(path, start)

\* A request matched the route whose URI is ":x".
C24_Witness ==
    /\ req.pc = "done"
    /\ req.target = U_bad
    /\ req.outcome = "InternalError"

\* C25 as stated: a request whose route's URI is not of the load-balanced
\* form is handed to the proxy with that URI as target, and the balancer is
\* left as it is.
C25_DirectTargetVerbatim ==
    [][ (req.pc = "chained" /\ req'.pc = "done"
            /\ ~HasPrefix(req.matched.route.URI, LbPrefix))
          => /\ req'.outcome = "Proxy"
             /\ req'.target = req.matched.route.URI
             /\ lb' = lb ]_vars

\* C25 amended: a request whose route's URI is not of the load-balanced form
\* resolves to exactly that URI and leaves the balancer as it is; it is
\* handed to the proxy with that target when the URI parses as a URL, and
\* answered with an internal error when it does not.
C25_DirectTargetVerbatimIfParsed ==
    [][ (req.pc = "chained" /\ req'.pc = "done"
            /\ ~HasPrefix(req.matched.route.URI, LbPrefix))
          => /\ req'.target = req.matched.route.URI
             /\ lb' = lb
             /\ req'.outcome = IF UrlParseError(req.matched.route.URI)
                               THEN "InternalError" ELSE "Proxy" ]_vars

\* A request of a route with a plain URI went to the proxy while the
\* balancer held a server.
C25_Witness ==
    /\ req.pc = "done"
    /\ req.outcome = "Proxy"
    /\ req.matched.kind = "route"
    /\ req.matched.route.URI = U_http
    /\ req.target = U_http
    /\ Len(lb.servers) > 0

\* C26: when the chain of a request with a matched route runs, the context
\* holds that route, an empty attribute map and the time the request
\* started at.
C26_ContextReadyBeforeChain ==
    (req.pc \in {"chained", "done"} /\ req.matched.kind = "route")
        => /\ req.ctx.Route = req.matched.route.ID
           /\ req.ctx.Attributes = {}
           /\ req.ctx.StartTime = req.start

\* The positions of the routes of a list that have this ID.
PositionsOf(routes, id) == { i \in 1..Len(routes) : routes[i].ID = id }

\* The list without the route at position i, the others in their order.
Without(routes, i) ==
    [j \in 1..(Len(routes) - 1) |-> IF j < i THEN routes[j] ELSE routes[j + 1]]

\* C28: UpdateRoute and DeleteRoute with an ID no stored route has return an
\* error and leave the list as it was; with an ID a stored route has they
\* return no error, UpdateRoute leaves the list with that route replaced and
\* every other position as it was, DeleteRoute leaves the list without that
\* route and the others in their order.
C28_UpdateDeleteByID ==
    cm.op \in {"UpdateRoute", "DeleteRoute"}
        => IF PositionsOf(cm.before, cm.id) = {}
           THEN /\ cm.err = ErrNotExist
                /\ g_config = cm.before
           ELSE /\ cm.err = NoError
                /\ \E i \in PositionsOf(cm.before, cm.id) :
                      IF cm.op = "UpdateRoute"
                      THEN /\ Len(g_config) = Len(cm.before)
                           /\ g_config[i] = cm.route
                           /\ \A j \in 1..Len(cm.before) :
                                 j # i => g_config[j] = cm.before[j]
                      ELSE g_config = Without(cm.before, i)

\* DeleteRoute removed the middle one of three routes.
C28_Witness ==
    /\ cm.op = "DeleteRoute"
    /\ Len(cm.before) = 3
    /\ cm.before[2].ID = cm.id
    /\ cm.err = NoError
    /\ Len(g_config) = 2

\* C29: no two stored routes have the same ID, and AddRoute with an ID a
\* stored route has leaves the list with that route replaced at its position
\* and nothing appended.
C29_ConfigUniqueIDs ==
    /\ \A i, j \in 1..Len(g_config) :
          g_config[i].ID = g_config[j].ID => i = j
    /\ (cm.op = "AddRoute" /\ PositionsOf(cm.before, cm.id) # {})
          => \E i \in PositionsOf(cm.before, cm.id) :
                g_config = [cm.before EXCEPT ![i] = cm.route]

\* AddRoute replaced the first of two routes by a route of another URI.
C29_Witness ==
    /\ cm.op = "AddRoute"
    /\ Len(cm.before) = 2
    /\ cm.before[1].ID = cm.id
    /\ cm.before[1].URI # cm.route.URI
    /\ Len(g_config) = 2
    /\ g_config[1] = cm.route

\* C37: a request goes from the route match to the context and the whole
\* chain run, then to the target and the hand-off, each once and in this
\* order, and ends as not-found, as an internal error or with the hand-off
\* to the proxy.
C37_FixedOrderOneOutcome ==
    [][ req' # req
          => \/ /\ req.pc \in {"idle", "done"}
                /\ req'.pc = "done"
                /\ req'.matched = Nil
                /\ req'.outcome = "NotFound"
                /\ req'.calls = <<>>
             \/ /\ req.pc \in {"idle", "done"}
                /\ req'.pc = "matched"
                /\ req'.matched.kind = "route"
                /\ req'.outcome = "none"
                /\ req'.calls = <<>>
             \/ /\ req.pc = "matched"
                /\ req'.pc = "chained"
                /\ req'.matched = req.matched
                /\ req'.ctx.Route = req.matched.route.ID
                /\ req'.calls = ExecuteCalls(g_middlewares, 0)
                /\ req'.outcome = "none"
             \/ /\ req.pc = "chained"
                /\ req'.pc = "done"
                /\ req'.matched = req.matched
                /\ req'.calls = req.calls
                /\ req'.outcome \in {"InternalError", "Proxy"} ]_vars

\* Some PreHandle of the gateway's chain returns false.
ShortCircuited ==
    \E i \in 1..Len(g_middlewares) : ~g_middlewares[i].pre

\* C38: a request whose chain was short-circuited is not handed to the
\* proxy and does not move the balancer's cursor.
C38_ShortCircuitStopsRequest ==
    [][ (req.pc = "chained" /\ req'.pc = "done" /\ ShortCircuited)
          => /\ req'.outcome # "Proxy"
             /\ lb'.currentIndex = lb.currentIndex ]_vars

\* C36: no chain is used by two requests and no attribute map holds what
\* two requests wrote, and the calls of every request are, at every moment
\* of every interleaving, the first calls of the chain run alone, and all
\* of them when Execute has returned.
C36_RequestOwnsChainAndContext ==
    /\ \A c \in Requests :
          /\ Cardinality(cr.chains[c].users) <= 1
          /\ \A k1, k2 \in cr.attrs[c] : k1[1] = k2[1]
    /\ \A r \in Requests :
          LET alone == ExecuteCalls(g_middlewares, 0)
              calls == cr.run[r].calls
          IN  /\ Len(calls) <= Len(alone)
              /\ calls = SubSeq(alone, 1, Len(calls))
              /\ cr.run[r].pc = "done" => calls = alone

\* One request is in its backward loop while another one is in its forward
\* loop, and both wrote attributes.
C36_Witness ==
    /\ Len(g_middlewares) >= 2
    /\ \E r1, r2 \in Requests :
          /\ cr.run[r1].pc = "backward"
          /\ Len(cr.run[r1].calls) >= 3
          /\ cr.run[r2].pc = "forward"
          /\ Len(cr.run[r2].calls) >= 1
          /\ cr.attrs[r1] # {}
          /\ cr.attrs[r2] # {}

(***************************************************************************)
(* Specifications                                                          *)
(***************************************************************************)
InitChain == ChainInit /\ RouterIdle /\ LBIdle /\ LockIdle /\ GatewayIdle /\ PathMatchIdle /\ ConfigIdle /\ RequestsIdle

SpecChain == InitChain /\ [][ChainNext]_vars

InitRouter == RouterInit /\ ChainIdle /\ LBIdle /\ LockIdle /\ GatewayIdle /\ PathMatchIdle /\ ConfigIdle /\ RequestsIdle

SpecRouter == InitRouter /\ [][RouterNext]_vars

InitRoundRobin == LBInit("RoundRobin") /\ ChainIdle /\ RouterIdle /\ LockIdle /\ GatewayIdle /\ PathMatchIdle /\ ConfigIdle /\ RequestsIdle

SpecRoundRobin == InitRoundRobin /\ [][LBNext]_vars

InitWeighted == LBInit("WeightedRoundRobin") /\ ChainIdle /\ RouterIdle /\ LockIdle /\ GatewayIdle /\ PathMatchIdle /\ ConfigIdle /\ RequestsIdle

SpecWeighted == InitWeighted /\ [][LBNext]_vars

InitLocks ==
    /\ \E kind \in Kinds : LBInit(kind)
    /\ LockInit
    /\ ChainIdle
    /\ RouterIdle
    /\ GatewayIdle
    /\ PathMatchIdle
    /\ ConfigIdle /\ RequestsIdle

SpecLocks == InitLocks /\ [][LockNext]_vars

SpecLocksFair == InitLocks /\ [][WaitingNext]_vars /\ WaitingFairness

InitBalancers ==
    /\ \E kind \in Kinds : LBInit(kind)
    /\ ChainIdle
    /\ RouterIdle
    /\ LockIdle
    /\ GatewayIdle
    /\ PathMatchIdle
    /\ ConfigIdle /\ RequestsIdle

SpecBalancers == InitBalancers /\ [][LBNext]_vars

SpecGetServers == InitBalancers /\ [][CopyNext]_vars

\* NewGateway creates a RoundRobinBalancer.
InitGateway ==
    /\ GatewayInit
    /\ LBInit("RoundRobin")
    /\ ChainIdle
    /\ RouterIdle
    /\ LockIdle
    /\ PathMatchIdle
    /\ ConfigIdle /\ RequestsIdle

SpecGateway == InitGateway /\ [][GatewayNext]_vars

\* NewStaticConfigManager: no routes.
InitConfig ==
    /\ ConfigIdle
    /\ RequestsIdle
    /\ GatewayIdle
    /\ ChainIdle
    /\ RouterIdle
    /\ LBIdle
    /\ LockIdle
    /\ PathMatchIdle

SpecConfig == InitConfig /\ [][ConfigNext]_vars

\* A gateway with its middlewares and no request yet.
InitRequests ==
    /\ RequestsIdle
    /\ g_middlewares \in HandlerLists
    /\ g_config = <<>>
    /\ g_router = <<>>
    /\ rl = NoReload
    /\ req = NoRequest
    /\ ConfigIdle
    /\ ChainIdle
    /\ RouterIdle
    /\ LBIdle
    /\ LockIdle
    /\ PathMatchIdle

SpecRequests == InitRequests /\ [][RequestsNext]_vars

InitPathMatch ==
    /\ PathMatchInit
    /\ ChainIdle
    /\ RouterIdle
    /\ LBIdle
    /\ LockIdle
    /\ GatewayIdle
    /\ ConfigIdle /\ RequestsIdle

SpecPathMatch == InitPathMatch /\ [][PathMatchNext]_vars

=============================================================================
